---- MODULE Spec2Model ----
(***************************************************************************)
(* The retrieval-augmented generation pipeline of                          *)
(* obama_generator_pinecone.py (class ObamaRAGGeneratorPinecone) and the   *)
(* two Flask handlers of app.py that call it.                              *)
(*                                                                         *)
(* One invocation is in flight at a time in Spec: an invocation enters     *)
(* through one of the five entry points, and every call to an external     *)
(* service (embedding, vector index, generation) is a point where the      *)
(* environment answers: the code between two such points is one action.    *)
(* SpecInst models several facade instances living in one process, with    *)
(* invocations of different instances interleaved.                         *)
(*                                                                         *)
(* Numbers: a temperature is in tenths (7 is 0.7), a relevance score in    *)
(* thousandths (912 is 0.912).                                             *)
(***************************************************************************)
EXTENDS Integers, Sequences, FiniteSets, TLC

VARIABLES
  environ,      \* os.environ: the two credentials, each a key or None
  generator,    \* app.py's module-level generator: "unset", "None" or "ready"
  stats_calls,  \* describe_index_stats calls made by the constructor
  pc,           \* where the invocation in flight stands
  req,          \* its entry point and arguments
  trace,        \* the external calls of the invocation and how each ended
  top_k,        \* top_k of its index query
  results,      \* the matches index.query answered with
  chunks,       \* the list search_relevant_speeches built
  prompt,       \* the prompt create_prompt built
  gen_call,     \* the arguments of its chat.completions.create call
  completion,   \* what chat.completions.create answered
  ret,          \* how the core method ended: a return value or an exception
  response,     \* the HTTP response of a handler
  touched,      \* the services called at request time since the process started
  instances,    \* SpecInst: each facade instance's fields
  api_key,      \* SpecInst: the module attribute openai.api_key
  ipc,          \* SpecInst: where each instance's invocation stands
  used          \* SpecInst: the credentials the calls of each invocation went out with

pipeVars == <<environ, generator, stats_calls, pc, req, trace, top_k, results, chunks,
              prompt, gen_call, completion, ret, response, touched>>
instVars == <<instances, api_key, ipc, used>>
vars == <<pipeVars, instVars>>

----------------------------------------------------------------------------
(* Bounds of the model *)

\* The index holds the vectors 0..NumDocs; vector 0 was stored without a url.
NumDocs == 2
\* A direct caller of search_relevant_speeches or create_prompt passes n in 1..MaxN.
MaxN == 2
\* SpecInst: facade instances 1..NumInstances.
NumInstances == 2

----------------------------------------------------------------------------
(* Python values *)

None == "None"

\* bool(v) of a str-or-None value (app.py: `if not topic`, `if result`).
Truthy(v) == v # None /\ v # ""

Range(s) == {s[i] : i \in DOMAIN s}

\* The sequences over S without repetition, of length at most k.
RECURSIVE InjSeqs(_, _)
InjSeqs(S, k) ==
  IF k = 0 \/ S = {} THEN {<<>>}
  ELSE {<<>>} \cup UNION {{<<x>> \o t : t \in InjSeqs(S \ {x}, k - 1)} : x \in S}

----------------------------------------------------------------------------
(* The inputs callers supply *)

Topics == {"", "healthcare reform"}
Lengths == {"short", "medium", "long", "epic"}
Models == {"gpt-4", "gpt-3.5-turbo"}
\* In tenths: 0.0, 0.7 and 1.5.
Temperatures == {0, 7, 15}
\* What a JSON body holds under 'temperature': a number, or text float() rejects.
JsonTemperatures ==
  [num : {TRUE}, tenths : Temperatures] \cup {[num |-> FALSE, tenths |-> 0]}
\* A POST body: json is FALSE when request.json yields no dict.
Bodies ==
  [json : BOOLEAN, topic : Topics, length : Lengths, model : Models,
   temperature : JsonTemperatures]

NoReq ==
  [entry |-> "none", topic |-> "", length |-> "", temperature |-> 0,
   model |-> "", n |-> 0]
NoGenCall == [model |-> "", temperature |-> 0, max_tokens |-> 0]
NoCompletion == [raised |-> FALSE, choices |-> <<>>, asked |-> FALSE]
NoRet == [kind |-> "pending", exc |-> "", text |-> None]
NoResponse == [status |-> 0, error |-> "", text |-> ""]

----------------------------------------------------------------------------
(* The external services *)

Environs == [OPENAI_API_KEY : {None, "sk-env"}, PINECONE_API_KEY : {None, "pc-env"}]

\* How the constructor's try block can go: the packages import and the stats
\* call answers, a package is missing, or the index cannot be reached.
ConnectOutcomes == {"ok", "ImportError", "unreachable"}

Docs == 0 .. NumDocs

\* The metadata stored with vector d; vector 0 carries no url.
Metadata(d) ==
  IF d = 0
  THEN [text |-> <<"text", d>>, title |-> <<"title", d>>, date |-> <<"date", d>>]
  ELSE [text |-> <<"text", d>>, title |-> <<"title", d>>, date |-> <<"date", d>>,
        url |-> <<"url", d>>]

\* The similarity the index reports for vector d, in thousandths.
Score(d) == 986 - 74 * d

Match(d) == [id |-> d, score |-> Score(d), metadata |-> Metadata(d)]

\* What index.query can answer to a query asking for k matches: at most k of
\* the stored vectors, none twice, in the order the service chooses.
QueryAnswers(k) == {[j \in DOMAIN ds |-> Match(ds[j])] : ds \in InjSeqs(Docs, k)}

\* embeddings.create: it answers with a vector, answers with an empty data
\* list (response.data[0] then raises IndexError), or raises.
EmbeddingOutcomes == {"ok", "IndexError", "OpenAIError"}

\* chat.completions.create: it raises, or answers with a list of choices, each
\* the content of a message: a text, the empty text, or None.
Contents == {"My fellow Americans", "", None}
CompletionOutcomes ==
  {[raised |-> TRUE, choices |-> <<>>, asked |-> TRUE],
   [raised |-> FALSE, choices |-> <<>>, asked |-> TRUE]}
  \cup {[raised |-> FALSE, choices |-> <<c>>, asked |-> TRUE] : c \in Contents}

----------------------------------------------------------------------------
(* ObamaRAGGeneratorPinecone.__init__ *)

\* `openai_api_key or os.environ.get(...)`.
ResolveKey(arg, env) == IF Truthy(arg) THEN arg ELSE env

CredentialsMissing_late(okey, pkey) == FALSE

\* The two `if not self.<key>: raise ValueError` checks.
CredentialsMissing(okey, pkey) == ~Truthy(okey) \/ ~Truthy(pkey)

\* The constructor with the keys it resolved and the way its try block goes:
\* whether it raises, whether describe_index_stats was called, and whether
\* openai.api_key was assigned.
Construction(okey, pkey, connect) ==
  IF CredentialsMissing(okey, pkey)
  THEN [raised |-> TRUE, exc |-> "ValueError", stats |-> 0, assigned |-> FALSE]
  ELSE IF connect = "ImportError"
  THEN [raised |-> TRUE, exc |-> "ImportError", stats |-> 0, assigned |-> FALSE]
  ELSE IF connect = "unreachable"
  THEN [raised |-> TRUE, exc |-> "PineconeException", stats |-> 1, assigned |-> TRUE]
  ELSE [raised |-> FALSE, exc |-> "", stats |-> 1, assigned |-> TRUE]

----------------------------------------------------------------------------
(* search_relevant_speeches: the loop over results['matches'] *)

ChunkKeys == {"text", "title", "date", "url"}

\* match['metadata'][key] raises KeyError for a key the metadata lacks.
Complete(match) == ChunkKeys \subseteq DOMAIN match.metadata

Chunk(match) ==
  [text |-> match.metadata.text, title |-> match.metadata.title,
   date |-> match.metadata.date, url |-> match.metadata.url,
   score |-> match.score]

ExtractMatches_sorted(matches) ==
  LET byScore == [i \in DOMAIN matches |->
                    CHOOSE m \in Range(matches) :
                      Cardinality({o \in Range(matches) : o.score > m.score}) = i - 1]
  IN [raised |-> \E i \in DOMAIN matches : ~Complete(matches[i]),
      value |-> IF \A i \in DOMAIN matches : Complete(matches[i])
                THEN [i \in DOMAIN matches |-> Chunk(byScore[i])] ELSE <<>>]

\* The list the loop builds, or the KeyError of the first incomplete match.
ExtractMatches(matches) ==
  [raised |-> \E i \in DOMAIN matches : ~Complete(matches[i]),
   value |-> IF \A i \in DOMAIN matches : Complete(matches[i])
             THEN [i \in DOMAIN matches |-> Chunk(matches[i])] ELSE <<>>]

\* The top_k search_relevant_speeches asks the index for.
QueryTopK(n) == n

----------------------------------------------------------------------------
(* create_prompt: the text it assembles, as the sequence of its parts *)

\* '{score:.2f}': the score to the nearest hundredth, as <<units, hundredths>>.
\* (No score of the model lies halfway between two hundredths.)
Format2f(score) ==
  LET h == (score + 5) \div 10 IN <<h \div 100, h % 100>>

\* length_instructions: each instruction as the parts of its string.
length_instructions ==
  [short |-> <<"Write ", "1 substantial paragraph (4-6 sentences)", ".">>,
   medium |-> <<"Write ", "2-3 paragraphs", ".">>,
   long |-> <<"Write ", "5-7 paragraphs with a clear beginning, middle, and end", ".">>]

LengthInstruction_short(length) ==
  IF length \in DOMAIN length_instructions
  THEN length_instructions[length] ELSE length_instructions["short"]

\* length_instructions.get(length, length_instructions["medium"])
LengthInstruction(length) ==
  IF length \in DOMAIN length_instructions
  THEN length_instructions[length] ELSE length_instructions["medium"]

StyleCharacteristics ==
  <<"Thoughtful and measured tone, acknowledging complexity",
    "Personal stories and connections to everyday Americans",
    "Balanced perspective - hopeful while acknowledging real challenges",
    "Appeals to shared values and common ground",
    "Clear, accessible language with occasional rhetorical flourishes",
    "Use of we and our to build unity",
    "Specific examples and concrete details",
    "Inspirational closing that calls people to action">>

Header(k) ==
  <<[part |-> "persona",
     text |-> "You are tasked with generating a statement in Barack Obama's authentic speaking style."],
    [part |-> "count", examples |-> k]>>

ExampleBlock(i, chunk) ==
  [part |-> "example", number |-> i, title |-> chunk.title, date |-> chunk.date,
   relevance |-> Format2f(chunk.score), text |-> chunk.text]

ExampleBlocks_skipfirst(relevant_chunks) ==
  [j \in 1 .. (Len(relevant_chunks) - 1) |-> ExampleBlock(j, relevant_chunks[j + 1])]

\* for i, chunk in enumerate(relevant_chunks, 1)
ExampleBlocks(relevant_chunks) ==
  [i \in DOMAIN relevant_chunks |-> ExampleBlock(i, relevant_chunks[i])]

Closing(topic, length) ==
  <<[part |-> "end_of_examples"], [part |-> "topic", topic |-> topic]>>
  \o [i \in DOMAIN StyleCharacteristics |->
        [part |-> "style", text |-> StyleCharacteristics[i]]]
  \o <<[part |-> "length", instruction |-> LengthInstruction(length)],
       [part |-> "cue", text |-> "Statement:"]>>

BuildPrompt(topic, relevant_chunks, length) ==
  Header(Len(relevant_chunks)) \o ExampleBlocks(relevant_chunks)
  \o Closing(topic, length)

----------------------------------------------------------------------------
(* The pipeline: one invocation from its entry to its result *)

\* generate's n_examples=3, and the n=5 of app.py's search handler.
GenerateExamples == 3
SearchResults == 5

Call(stage) == [ev |-> "call", stage |-> stage]
Ok(stage) == [ev |-> "ok", stage |-> stage]
Raise(stage) == [ev |-> "raise", stage |-> stage]
Built == [ev |-> "built", stage |-> "prompt"]

WebEntries == {"/generate", "/search"}
GenerateEntries == {"/generate", "generate"}
SearchEntries == {"/search", "search_relevant_speeches"}

\* The handlers' `except Exception as e`: 500 with str(e).
ErrorResponse(exc) == [status |-> 500, error |-> exc, text |-> ""]
NotInitialized ==
  [status |-> 500, error |-> "Generator not initialized. Check your API keys.",
   text |-> ""]
TopicRequired == [status |-> 400, error |-> "Topic is required", text |-> ""]

\* float(data.get('temperature', 0.7)) raises for what is no number.
FloatRaises(t) == ~t.num

\* max_tokens=1000 if length == "long" else 500
MaxTokens(length) == IF length = "long" THEN 1000 ELSE 500

\* The handler answers without entering the core.
Reply(entry, r) ==
  /\ req' = [NoReq EXCEPT !.entry = entry]
  /\ response' = r
  /\ pc' = "done"
  /\ UNCHANGED <<trace, top_k, results, chunks, prompt, gen_call, completion, ret,
                 touched>>

\* The core is entered: every entry point reaches embed_query first, which
\* calls embeddings.create with the topic as it was given.
Enter(r) ==
  /\ req' = r
  /\ trace' = <<Call("embedding")>>
  /\ touched' = touched \cup {"embedding"}
  /\ pc' = "embedding"
  /\ UNCHANGED <<top_k, results, chunks, prompt, gen_call, completion, ret, response>>

\* An exception leaves the core; a handler's except clause turns it into a 500.
Propagate(exc) ==
  /\ ret' = [kind |-> "raise", exc |-> exc, text |-> None]
  /\ response' = IF req.entry \in WebEntries THEN ErrorResponse(exc) ELSE NoResponse
  /\ pc' = "done"

\* app.py, module level: the generator is built once, from the environment.
app_startup(connect) ==
  /\ generator = "unset"
  /\ LET c == Construction(ResolveKey(None, environ.OPENAI_API_KEY),
                           ResolveKey(None, environ.PINECONE_API_KEY), connect)
     IN /\ generator' = IF c.raised THEN "None" ELSE "ready"
        /\ stats_calls' = stats_calls + c.stats
  /\ UNCHANGED <<environ, pc, req, trace, top_k, results, chunks, prompt, gen_call,
                 completion, ret, response, touched, instVars>>

\* app.py, POST /generate, up to its call of generator.generate.
app_generate(body) ==
  /\ pc = "idle"
  /\ generator # "unset"
  /\ IF generator = "None" THEN Reply("/generate", NotInitialized)
     ELSE IF ~body.json THEN Reply("/generate", ErrorResponse("AttributeError"))
     ELSE IF FloatRaises(body.temperature)
     THEN Reply("/generate", ErrorResponse("ValueError"))
     ELSE IF ~Truthy(body.topic) THEN Reply("/generate", TopicRequired)
     ELSE Enter([entry |-> "/generate", topic |-> body.topic,
                 length |-> body.length, temperature |-> body.temperature.tenths,
                 model |-> body.model, n |-> GenerateExamples])
  /\ UNCHANGED <<environ, generator, stats_calls, instVars>>

\* app.py, POST /search, up to its call of search_relevant_speeches.
app_search(body) ==
  /\ pc = "idle"
  /\ generator # "unset"
  /\ IF generator = "None" THEN Reply("/search", NotInitialized)
     ELSE IF ~body.json THEN Reply("/search", ErrorResponse("AttributeError"))
     ELSE IF ~Truthy(body.topic) THEN Reply("/search", TopicRequired)
     ELSE Enter([NoReq EXCEPT !.entry = "/search", !.topic = body.topic,
                              !.n = SearchResults])
  /\ UNCHANGED <<environ, generator, stats_calls, instVars>>

\* ObamaRAGGeneratorPinecone.generate called on the facade itself.
generate(topic, length, temperature, model) ==
  /\ pc = "idle"
  /\ generator = "ready"
  /\ Enter([entry |-> "generate", topic |-> topic, length |-> length,
            temperature |-> temperature, model |-> model, n |-> GenerateExamples])
  /\ UNCHANGED <<environ, generator, stats_calls, instVars>>

\* search_relevant_speeches called on the facade itself.
search_relevant_speeches(topic, n) ==
  /\ pc = "idle"
  /\ generator = "ready"
  /\ Enter([NoReq EXCEPT !.entry = "search_relevant_speeches", !.topic = topic,
                         !.n = n])
  /\ UNCHANGED <<environ, generator, stats_calls, instVars>>

\* create_prompt called on the facade itself.
create_prompt(topic, n_examples, length) ==
  /\ pc = "idle"
  /\ generator = "ready"
  /\ Enter([NoReq EXCEPT !.entry = "create_prompt", !.topic = topic,
                         !.n = n_examples, !.length = length])
  /\ UNCHANGED <<environ, generator, stats_calls, instVars>>

EmbedQueryRaises_swallowed(outcome) == FALSE

\* embed_query has no try block: what embeddings.create raises, and the
\* IndexError of response.data[0], leave search_relevant_speeches at once.
EmbedQueryRaises(outcome) == outcome # "ok"

\* embed_query returns or raises; search_relevant_speeches goes on to
\* index.query only with the embedding in hand.
embed_query_returns(outcome) ==
  /\ pc = "embedding"
  /\ IF EmbedQueryRaises(outcome)
     THEN /\ trace' = Append(trace, Raise("embedding"))
          /\ Propagate(outcome)
          /\ UNCHANGED <<top_k, touched>>
     ELSE /\ trace' = trace \o <<IF outcome = "ok" THEN Ok("embedding")
                                  ELSE Raise("embedding"), Call("index")>>
          /\ top_k' = QueryTopK(req.n)
          /\ touched' = touched \cup {"index"}
          /\ pc' = "index"
          /\ UNCHANGED <<ret, response>>
  /\ UNCHANGED <<environ, generator, stats_calls, req, results, chunks, prompt,
                 gen_call, completion, instVars>>

\* index.query raises: nothing catches it below the handler.
index_query_raises ==
  /\ pc = "index"
  /\ trace' = Append(trace, Raise("index"))
  /\ Propagate("PineconeException")
  /\ UNCHANGED <<environ, generator, stats_calls, req, top_k, results, chunks,
                 prompt, gen_call, completion, touched, instVars>>

\* What generate returns for an answer of chat.completions.create: the try
\* block returns choices[0].message.content, the except clause returns None.
GenerateReturn(outcome) ==
  IF outcome.raised \/ outcome.choices = <<>> THEN None ELSE outcome.choices[1]

GenerateResponse_isnotnone(result) ==
  IF result # None
  THEN [status |-> 200, error |-> "", text |-> result]
  ELSE [status |-> 500, error |-> "Generation failed", text |-> ""]

\* The handler's `if result:` after generator.generate returned.
GenerateResponse(result) ==
  IF Truthy(result)
  THEN [status |-> 200, error |-> "", text |-> result]
  ELSE [status |-> 500, error |-> "Generation failed", text |-> ""]

\* index.query answers: the matches are mapped to chunks, and the entry point
\* decides what follows.
index_query_returns(matches) ==
  /\ pc = "index"
  /\ matches \in QueryAnswers(top_k)
  /\ results' = matches
  /\ LET e == ExtractMatches(matches)
     IN IF e.raised
        THEN /\ trace' = Append(trace, Ok("index"))
             /\ Propagate("KeyError")
             /\ UNCHANGED <<chunks, prompt, gen_call, touched>>
        ELSE IF req.entry \in SearchEntries
        THEN /\ trace' = Append(trace, Ok("index"))
             /\ chunks' = e.value
             /\ ret' = [kind |-> "return", exc |-> "", text |-> None]
             /\ response' = IF req.entry \in WebEntries
                            THEN [status |-> 200, error |-> "", text |-> ""]
                            ELSE NoResponse
             /\ pc' = "done"
             /\ UNCHANGED <<prompt, gen_call, touched>>
        ELSE IF req.entry = "create_prompt"
        THEN /\ trace' = trace \o <<Ok("index"), Built>>
             /\ chunks' = e.value
             /\ prompt' = BuildPrompt(req.topic, e.value, req.length)
             /\ ret' = [kind |-> "return", exc |-> "", text |-> None]
             /\ pc' = "done"
             /\ UNCHANGED <<gen_call, response, touched>>
        ELSE /\ trace' = trace \o <<Ok("index"), Built, Call("generation")>>
             /\ chunks' = e.value
             /\ prompt' = BuildPrompt(req.topic, e.value, req.length)
             /\ gen_call' = [model |-> req.model, temperature |-> req.temperature,
                             max_tokens |-> MaxTokens(req.length)]
             /\ touched' = touched \cup {"generation"}
             /\ pc' = "generation"
             /\ UNCHANGED <<ret, response>>
  /\ UNCHANGED <<environ, generator, stats_calls, req, top_k, completion, instVars>>

\* chat.completions.create answers or raises, and generate returns.
completions_create_returns(outcome) ==
  /\ pc = "generation"
  /\ completion' = outcome
  /\ trace' = Append(trace, IF outcome.raised THEN Raise("generation")
                            ELSE Ok("generation"))
  /\ ret' = [kind |-> "return", exc |-> "", text |-> GenerateReturn(outcome)]
  /\ response' = IF req.entry \in WebEntries
                 THEN GenerateResponse(GenerateReturn(outcome)) ELSE NoResponse
  /\ pc' = "done"
  /\ UNCHANGED <<environ, generator, stats_calls, req, top_k, results, chunks,
                 prompt, gen_call, touched, instVars>>

\* The caller has its result; the next invocation starts from nothing.
finish ==
  /\ pc = "done"
  /\ pc' = "idle"
  /\ req' = NoReq
  /\ trace' = <<>>
  /\ top_k' = 0
  /\ results' = <<>>
  /\ chunks' = <<>>
  /\ prompt' = <<>>
  /\ gen_call' = NoGenCall
  /\ completion' = NoCompletion
  /\ ret' = NoRet
  /\ response' = NoResponse
  /\ UNCHANGED <<environ, generator, stats_calls, touched, instVars>>

InitInst0 ==
  /\ instances = [i \in 1 .. NumInstances |->
                    [state |-> "unset", openai_api_key |-> None,
                     pinecone_api_key |-> None]]
  /\ api_key = None
  /\ ipc = [i \in 1 .. NumInstances |-> "idle"]
  /\ used = [i \in 1 .. NumInstances |->
               [embedding |-> None, index |-> None, generation |-> None]]

InitPipe ==
  /\ generator = "unset"
  /\ stats_calls = 0
  /\ pc = "idle"
  /\ req = NoReq
  /\ trace = <<>>
  /\ top_k = 0
  /\ results = <<>>
  /\ chunks = <<>>
  /\ prompt = <<>>
  /\ gen_call = NoGenCall
  /\ completion = NoCompletion
  /\ ret = NoRet
  /\ response = NoResponse
  /\ touched = {}

Init ==
  /\ environ \in Environs
  /\ InitPipe
  /\ InitInst0

Next ==
  \/ \E connect \in ConnectOutcomes : app_startup(connect)
  \/ \E body \in Bodies : app_generate(body)
  \/ \E body \in Bodies : app_search(body)
  \/ \E topic \in Topics, length \in Lengths, temperature \in Temperatures,
        model \in Models : generate(topic, length, temperature, model)
  \/ \E topic \in Topics, n \in 1 .. MaxN : search_relevant_speeches(topic, n)
  \/ \E topic \in Topics, n \in 1 .. MaxN, length \in Lengths :
        create_prompt(topic, n, length)
  \/ \E outcome \in EmbeddingOutcomes : embed_query_returns(outcome)
  \/ index_query_raises
  \/ \E matches \in QueryAnswers(SearchResults) : index_query_returns(matches)
  \/ \E outcome \in CompletionOutcomes : completions_create_returns(outcome)
  \/ finish

Spec == Init /\ [][Next]_vars

----------------------------------------------------------------------------
(* Several facade instances in one process *)

\* The keys a caller passes to the constructor; None leaves it to the environment.
OpenAIKeys == {None, "sk-A", "sk-B"}
PineconeKeys == {None, "pc-A", "pc-B"}

\* ObamaRAGGeneratorPinecone(openai_api_key, pinecone_api_key): the instance
\* keeps its keys and its own Pinecone handle; `openai.api_key = ...` assigns
\* the attribute of the openai module, which every instance shares.
init_instance(i, openai_arg, pinecone_arg, connect) ==
  /\ instances[i].state = "unset"
  /\ LET okey == ResolveKey(openai_arg, environ.OPENAI_API_KEY)
         pkey == ResolveKey(pinecone_arg, environ.PINECONE_API_KEY)
         c == Construction(okey, pkey, connect)
     IN /\ instances' = [instances EXCEPT ![i] =
                           [state |-> IF c.raised THEN "failed" ELSE "ready",
                            openai_api_key |-> okey, pinecone_api_key |-> pkey]]
        /\ api_key' = IF c.assigned THEN okey ELSE api_key
  /\ UNCHANGED <<ipc, used, pipeVars>>

\* embed_query of instance i: self.openai_client is the openai module, so the
\* call goes out with the module's api_key as it is now.
embed_query(i) ==
  /\ instances[i].state = "ready"
  /\ ipc[i] = "idle"
  /\ used' = [used EXCEPT ![i] =
                [embedding |-> api_key, index |-> None, generation |-> None]]
  /\ ipc' = [ipc EXCEPT ![i] = "embedded"]
  /\ UNCHANGED <<instances, api_key, pipeVars>>

\* self.index.query of instance i: the handle made from the instance's own key.
index_query(i) ==
  /\ ipc[i] = "embedded"
  /\ used' = [used EXCEPT ![i].index = instances[i].pinecone_api_key]
  /\ ipc' = [ipc EXCEPT ![i] = "queried"]
  /\ UNCHANGED <<instances, api_key, pipeVars>>

\* self.openai_client.chat.completions.create of instance i: the module again.
chat_completion(i) ==
  /\ ipc[i] = "queried"
  /\ used' = [used EXCEPT ![i].generation = api_key]
  /\ ipc' = [ipc EXCEPT ![i] = "idle"]
  /\ UNCHANGED <<instances, api_key, pipeVars>>

InitInst ==
  /\ environ \in Environs
  /\ InitPipe
  /\ InitInst0

NextInst ==
  \/ \E i \in 1 .. NumInstances, o \in OpenAIKeys, p \in PineconeKeys,
        connect \in ConnectOutcomes : init_instance(i, o, p, connect)
  \/ \E i \in 1 .. NumInstances : embed_query(i)
  \/ \E i \in 1 .. NumInstances : index_query(i)
  \/ \E i \in 1 .. NumInstances : chat_completion(i)

SpecInst == InitInst /\ [][NextInst]_vars

----------------------------------------------------------------------------
(* The claims *)

Raised(stage) == Raise(stage) \in Range(trace)

\* The generation call answered, and its first choice carries no text.
NoText ==
  /\ completion.asked
  /\ ~completion.raised
  /\ completion.choices # <<>>
  /\ completion.choices[1] \in {"", None}

GenerationFailed == [status |-> 500, error |-> "Generation failed", text |-> ""]

\* C1: generate called with an empty topic makes no call to the embedding,
\* index or generation service, and ends by returning (a validation failure),
\* never by raising.
C1_EmptyTopicMakesNoCall ==
  (req.entry = "generate" /\ req.topic = "")
    => (trace = <<>> /\ ret.kind # "raise")

\* C2: a generation request whose temperature lies outside [0, 1] is
\* rejected: no service is called and the temperature is not forwarded to
\* the generation service.
C2_TemperatureOutOfRangeRejected ==
  (req.entry \in GenerateEntries /\ (req.temperature < 0 \/ req.temperature > 10))
    => (trace = <<>> /\ gen_call = NoGenCall)

C4_UpstreamFailureIsReturned ==
  (pc = "done" /\ \E j \in DOMAIN trace : trace[j].ev = "raise")
    => ret.kind = "return"

\* C5: in generate the calls go out in the order embedding, index query,
\* generation; the index query only after the embedding call answered, the
\* generation call only after both answered and the prompt was built; when
\* retrieval fails there is no generation call.
C5_StrictCallOrder ==
  req.entry \in GenerateEntries =>
    /\ \A j \in DOMAIN trace :
         /\ trace[j] = Call("embedding") => j = 1
         /\ trace[j] = Call("index")
              => SubSeq(trace, 1, j - 1) = <<Call("embedding"), Ok("embedding")>>
         /\ trace[j] = Call("generation")
              => /\ SubSeq(trace, 1, j - 1) =
                      <<Call("embedding"), Ok("embedding"), Call("index"),
                        Ok("index"), Built>>
                 /\ prompt # <<>>
    /\ (Raised("embedding") \/ Raised("index") \/ ret.kind = "raise")
         => Call("generation") \notin Range(trace)

C5_Witness ==
  /\ req.entry \in GenerateEntries
  /\ pc = "done"
  /\ Len(trace) = 7
  /\ trace[6] = Call("generation")

\* C6: when the construction failed, no embedding, index or generation call
\* is ever made and every request is answered with the 500 of a missing
\* generator; and a missing credential fails the construction before any
\* external call, the stats call included.
C6_FailedConstructionMakesNoCall ==
  /\ generator = "None"
       => /\ touched = {}
          /\ trace = <<>>
          /\ pc = "done" => (response = NotInitialized /\ ret.kind = "pending")
  /\ (generator # "unset"
        /\ (environ.OPENAI_API_KEY = None \/ environ.PINECONE_API_KEY = None))
       => (generator = "None" /\ stats_calls = 0)

C6_Witness ==
  /\ generator = "None"
  /\ stats_calls = 1
  /\ pc = "done"
  /\ req.entry = "/generate"
  /\ response.status = 500

\* The instruction the spec's lookup table gives for a length.
TableInstruction(length) ==
  CASE length = "short" -> "1 substantial paragraph (4-6 sentences)"
    [] length = "long" -> "5-7 paragraphs with a clear beginning, middle, and end"
    [] OTHER -> "2-3 paragraphs"

PromptEntries == {"/generate", "generate", "create_prompt"}

\* C7: the built prompt holds the length instruction of the table for short,
\* medium and long, and the medium one for any other length; the prompt is
\* built whatever the length is.
C7_LengthInstruction ==
  /\ prompt # <<>>
       => /\ \E j \in DOMAIN prompt :
               /\ prompt[j].part = "length"
               /\ TableInstruction(req.length) \in Range(prompt[j].instruction)
          /\ Cardinality({j \in DOMAIN prompt : prompt[j].part = "length"}) = 1
  /\ (req.entry \in PromptEntries /\ Ok("index") \in Range(trace)
        /\ ret.kind # "raise")
       => prompt # <<>>

C7_Witness ==
  /\ prompt # <<>>
  /\ req.length = "epic"
  /\ \E j \in DOMAIN prompt :
       /\ prompt[j].part = "length"
       /\ "2-3 paragraphs" \in Range(prompt[j].instruction)

IsExample(p) == p.part = "example"

\* C8: a prompt built from k chunks holds exactly k example blocks, the i-th
\* block made from the i-th chunk, after a header that states k, and before
\* the whole closing section: the topic, the eight style lines and the length
\* instruction; this for k = 0 as well.
C8_ExampleBlocksInOrder ==
  prompt # <<>> =>
    LET k == Len(chunks)
        ex == SelectSeq(prompt, IsExample)
    IN /\ prompt[2] = [part |-> "count", examples |-> k]
       /\ Len(ex) = k
       /\ \A i \in 1 .. k :
            /\ prompt[2 + i] = ex[i]
            /\ ex[i].number = i
            /\ ex[i].title = chunks[i].title
            /\ ex[i].date = chunks[i].date
            /\ ex[i].text = chunks[i].text
       /\ Len(prompt) = 2 + k + 12
       /\ prompt[2 + k + 1].part = "end_of_examples"
       /\ prompt[2 + k + 2] = [part |-> "topic", topic |-> req.topic]
       /\ \A j \in 1 .. 8 : prompt[2 + k + 2 + j].part = "style"
       /\ prompt[2 + k + 11].part = "length"
       /\ prompt[2 + k + 12].part = "cue"

C8_Witness ==
  /\ prompt # <<>>
  /\ Len(chunks) = 2
  /\ chunks[1].score < chunks[2].score
  /\ SelectSeq(prompt, IsExample)[1].relevance = <<0, 84>>
  /\ SelectSeq(prompt, IsExample)[2].relevance = <<0, 91>>

\* C9: what search_relevant_speeches returns for n has at most n chunks, and
\* is the index's match sequence, match by match and in its order: the i-th
\* chunk holds the text, title, date, url and score of the i-th match.
C9_SearchMapsMatchesInOrder ==
  (pc = "done" /\ req.entry \in SearchEntries /\ ret.kind = "return")
    => /\ Len(chunks) <= req.n
       /\ Len(chunks) = Len(results)
       /\ \A i \in DOMAIN chunks :
            /\ chunks[i].text = results[i].metadata.text
            /\ chunks[i].title = results[i].metadata.title
            /\ chunks[i].date = results[i].metadata.date
            /\ chunks[i].url = results[i].metadata.url
            /\ chunks[i].score = results[i].score

C9_Witness ==
  /\ pc = "done"
  /\ req.entry = "search_relevant_speeches"
  /\ req.topic # ""
  /\ ret.kind = "return"
  /\ Len(chunks) = 2
  /\ Len(chunks) = req.n
  /\ chunks[1].score < chunks[2].score

\* C10: every call of an invocation goes out with the credentials its own
\* instance was constructed with, whatever other instances are constructed
\* and whatever other invocations run meanwhile.
C10_OwnCredentials ==
  \A i \in 1 .. NumInstances :
    /\ used[i].embedding \in {None, instances[i].openai_api_key}
    /\ used[i].index \in {None, instances[i].pinecone_api_key}
    /\ used[i].generation \in {None, instances[i].openai_api_key}

====
